---- MODULE Spec2Model ----
(***************************************************************************)
(* Submission verification and grading engine of the practice platform:    *)
(* backend/main.py (submit_task_solution and its two paths),               *)
(* backend/compiler.py (CodeCompiler drivers) and backend/crud.py          *)
(* (create_task_submission), with the task-detail operation, the          *)
(* toolchain probes and the question picker of a practice session.         *)
(*                                                                         *)
(* Python values are modelled as follows.                                  *)
(*   Optional[T]      None is <<>>, a value x is <<x>>                     *)
(*   str              a TLA+ string; a text is the sequence of its lines   *)
(*   list             a sequence;  set  a set;  dict  a record             *)
(*   float score      the exact rational m/n is kept as the pair (m, n);   *)
(*                    comparisons with 0.6 are done as 5*m >= 3*n, and the *)
(*                    reported round(score*100, 1) is kept in tenths       *)
(* A task's test_code, hints and expected_issues columns are only ever     *)
(* used through their truthiness or through "x or []", so a NULL column    *)
(* and an empty one are both modelled by the empty string / sequence.      *)
(***************************************************************************)
EXTENDS Integers, Sequences, FiniteSets, TLC

VARIABLES
    tasks,              \* the tasks table: task id -> Task row
    submissions,        \* the task_submissions table, in insertion order
    compiler_instance,  \* compiler.py _compiler_instance: None or the singleton
    call,               \* the call just completed and its response
    inflight,           \* worker -> None or the verification call it is in the
                        \* middle of, between counting the rows and inserting
    user_answers        \* the user_answers table, in insertion order

vars == <<tasks, submissions, compiler_instance, call, inflight, user_answers>>

----------------------------------------------------------------------------
(* Bounds of the exploration *)

MaxSubs == 3          \* submissions stored in the grader specification
MaxErrLines == 2      \* lines of a build tool's diagnostic stream
MaxTestLines == 2     \* lines of the test runner's event stream
MaxEvents == 5        \* lines of a longer event stream of test events
MaxExpected == 5      \* length of expected_issues in the review specification
MaxFound == 3         \* length of found_issues in the review specification

----------------------------------------------------------------------------
(* Python helpers *)

None == <<>>
Some(x) == <<x>>
IsNone(o) == o = <<>>
Val(o) == o[1]

\* set(xs) for a list xs
ToSet(xs) == {xs[i] : i \in 1..Len(xs)}

\* xs[:k] for k >= 0
Take(xs, k) == SubSeq(xs, 1, IF k < Len(xs) THEN k ELSE Len(xs))

\* all sequences over S of length 0..n
SeqsUpTo(S, n) == UNION {[1..k -> S] : k \in 0..n}

----------------------------------------------------------------------------
(* The process execution boundary: subprocess.run(argv, timeout=...)       *)
(* either returns a CompletedProcess or raises TimeoutExpired /            *)
(* FileNotFoundError; writing a file may raise OSError.                    *)

ExitCodes == {0, 1, 2}

Exited(rc) == [status |-> "exited", returncode |-> rc]
TimeoutExpired == [status |-> "timeout", returncode |-> -1]
FileNotFoundError == [status |-> "notfound", returncode |-> -1]

\* lines a tool may print on its diagnostic stream
ErrLines == {"", " ", "main.go:3: syntax error"}

\* str.strip() of one line is non-empty
NonBlank(line) == line \notin {"", " "}

RECURSIVE LStrip(_)
LStrip(ls) ==
    IF ls = <<>> THEN <<>>
    ELSE IF NonBlank(ls[1]) THEN ls ELSE LStrip(Tail(ls))

RECURSIVE RStrip(_)
RStrip(ls) ==
    IF ls = <<>> THEN <<>>
    ELSE IF NonBlank(ls[Len(ls)]) THEN ls ELSE RStrip(SubSeq(ls, 1, Len(ls) - 1))

\* text.strip().split("\n"): leading and trailing blank lines go; the empty
\* text splits into the one-element list [""]
strip_split(ls) ==
    LET s == RStrip(LStrip(ls))
    IN  IF s = <<>> THEN <<"">> ELSE s

\* [line for line in error_lines if line.strip()]
error_lines(stderr) == SelectSeq(strip_split(stderr), NonBlank)

TimeoutMsg == "Compilation timeout (30s)"
GoNotFoundMsg == "Go compiler not found. Make sure Go is installed and in PATH."
SolcNotFoundMsg == "Solc compiler not found. Install solc: npm install -g solc"
UnexpectedMsg == "Unexpected error"

----------------------------------------------------------------------------
(* The test runner's event stream (go test -v -json), one event per line   *)

LinePass == "{\"Action\":\"pass\"}"
LineFail == "{\"Action\":\"fail\"}"
LineRun == "{\"Action\":\"run\"}"
LineNoAction == "{\"Test\":\"T\"}"
LineGarbage == "FAIL task [build failed]"
LineNumber == "42"

TestLines == {"", LinePass, LineFail, LineRun, LineNoAction, LineGarbage, LineNumber}

\* json.loads(line): raises JSONDecodeError, or returns a dict or another value
json_loads(line) ==
    CASE line = LinePass -> [decoded |-> TRUE, is_dict |-> TRUE, Action |-> Some("pass")]
      [] line = LineFail -> [decoded |-> TRUE, is_dict |-> TRUE, Action |-> Some("fail")]
      [] line = LineRun -> [decoded |-> TRUE, is_dict |-> TRUE, Action |-> Some("run")]
      [] line = LineNoAction -> [decoded |-> TRUE, is_dict |-> TRUE, Action |-> None]
      [] line = LineNumber -> [decoded |-> TRUE, is_dict |-> FALSE, Action |-> None]
      [] OTHER -> [decoded |-> FALSE, is_dict |-> FALSE, Action |-> None]

\* mutation of parse_line: a line that fails to decode aborts the parse
parse_line_abort(acc, line) ==
    IF acc.raised \/ ~NonBlank(line) THEN acc
    ELSE LET event == json_loads(line)
         IN  IF ~event.decoded \/ ~event.is_dict
             THEN [acc EXCEPT !.raised = TRUE]
             ELSE [acc EXCEPT
                     !.events = Append(@, line),
                     !.passed_tests = @ + (IF event.Action = Some("pass") THEN 1 ELSE 0),
                     !.failed_tests = @ + (IF event.Action = Some("fail") THEN 1 ELSE 0)]

\* one iteration of the loop over test_output_lines
parse_line(acc, line) ==
    IF acc.raised \/ ~NonBlank(line) THEN acc
    ELSE LET event == json_loads(line)
         IN  IF ~event.decoded THEN acc                  \* except JSONDecodeError: pass
             ELSE IF ~event.is_dict                       \* event.get -> AttributeError
                  THEN [acc EXCEPT !.events = Append(@, line), !.raised = TRUE]
             ELSE [acc EXCEPT
                     !.events = Append(@, line),
                     !.passed_tests = @ + (IF event.Action = Some("pass") THEN 1 ELSE 0),
                     !.failed_tests = @ + (IF event.Action = Some("fail") THEN 1 ELSE 0)]

RECURSIVE parse_lines(_, _)
parse_lines(acc, ls) ==
    IF ls = <<>> THEN acc ELSE parse_lines(parse_line(acc, ls[1]), Tail(ls))

\* the whole loop, started from empty counters
parse_test_output(stdout) ==
    parse_lines([events |-> <<>>, passed_tests |-> 0, failed_tests |-> 0, raised |-> FALSE],
                strip_split(stdout))

----------------------------------------------------------------------------
(* What the host does during one driver call.  Fields a call never reaches *)
(* keep the values of BaseEnv.                                             *)

BaseEnv ==
    [mkdtemp |-> "ok",            \* tempfile.mkdtemp in CodeCompiler.__init__
     files |-> "ok",              \* mkdir / write_text inside the driver
     mod_init |-> Exited(0),      \* go mod init task
     build |-> Exited(0),         \* go build, or solc
     stderr |-> <<>>,             \* diagnostic stream of the build tool
     test |-> Exited(0),          \* go test -v -json
     stdout |-> <<>>,             \* event stream of the test runner
     orphans |-> FALSE,           \* the tool that timed out had started
                                  \* processes of its own, still running
     slow |-> {}]                 \* the steps that exit only when their
                                  \* time limit is about to run out

Raised == {TimeoutExpired, FileNotFoundError}

\* the environments of E in which a process times out, with and without
\* processes started by the tool itself
WithOrphans(E) ==
    E \cup {[e EXCEPT !.orphans = TRUE] :
              e \in {x \in E : TimeoutExpired \in {x.mod_init, x.build, x.test}}}

ErrTexts == SeqsUpTo(ErrLines, MaxErrLines)
TestTexts == SeqsUpTo(TestLines, MaxTestLines)

\* longer event streams, over the lines a test run is made of: results of
\* tests, other events, and text that is not JSON
EventLines == {LinePass, LineFail, LineRun, LineGarbage}
EventTexts == SeqsUpTo(EventLines, MaxEvents)

\* the environments of E in which the build or the test run times out, with
\* every choice of earlier steps that took all the time they were allowed
WithSlow(E) ==
    E \cup {[e EXCEPT !.slow = sl] :
              e \in {x \in E : TimeoutExpired \in {x.build, x.test} /\ ~x.orphans},
              sl \in SUBSET {"mod_init", "build"}}

\* every way a build-and-test driver call can go, for diagnostic and event
\* streams up to the bounds; the test runner only appears when there is
\* test source
GoEnvs(test_code) ==
    WithSlow(WithOrphans(
    {[BaseEnv EXCEPT !.files = "oserror"]}
    \cup {[BaseEnv EXCEPT !.mod_init = p] : p \in Raised \cup {Exited(1)}}
    \cup {[BaseEnv EXCEPT !.build = p] : p \in Raised}
    \cup {[BaseEnv EXCEPT !.build = Exited(rc), !.stderr = e] :
            rc \in ExitCodes \ {0}, e \in ErrTexts}
    \cup (IF test_code = "" THEN {BaseEnv}
          ELSE {[BaseEnv EXCEPT !.test = p] : p \in Raised}
               \cup {[BaseEnv EXCEPT !.test = Exited(rc), !.stdout = o] :
                       rc \in ExitCodes, o \in TestTexts}
               \cup {[BaseEnv EXCEPT !.test = Exited(rc), !.stdout = o] :
                       rc \in {0, 1}, o \in EventTexts})))

SolidityEnvs ==
    WithOrphans(
    {[BaseEnv EXCEPT !.files = "oserror"]}
    \cup {[BaseEnv EXCEPT !.build = p] : p \in Raised \cup {Exited(0)}}
    \cup {[BaseEnv EXCEPT !.build = Exited(rc), !.stderr = e] :
            rc \in ExitCodes \ {0}, e \in ErrTexts}
    \cup {[BaseEnv EXCEPT !.build = Exited(rc), !.stdout = o] :
            rc \in {0, 1}, o \in TestTexts})

\* one environment per exit path of the drivers, for the specification that
\* follows the history of submissions
GoPaths(test_code) ==
    {[BaseEnv EXCEPT !.files = "oserror"],
     [BaseEnv EXCEPT !.mod_init = TimeoutExpired],
     [BaseEnv EXCEPT !.mod_init = FileNotFoundError],
     [BaseEnv EXCEPT !.build = TimeoutExpired],
     [BaseEnv EXCEPT !.build = Exited(1), !.stderr = <<"main.go:3: syntax error">>]}
    \cup (IF test_code = "" THEN {BaseEnv}
          ELSE {[BaseEnv EXCEPT !.test = TimeoutExpired],
                [BaseEnv EXCEPT !.test = Exited(0), !.stdout = <<LinePass>>],
                [BaseEnv EXCEPT !.test = Exited(1), !.stdout = <<LineFail>>],
                [BaseEnv EXCEPT !.test = Exited(0), !.stdout = <<LineNumber>>]})

SolidityPaths ==
    {[BaseEnv EXCEPT !.files = "oserror"],
     [BaseEnv EXCEPT !.build = TimeoutExpired],
     [BaseEnv EXCEPT !.build = FileNotFoundError],
     [BaseEnv EXCEPT !.build = Exited(1), !.stderr = <<"main.go:3: syntax error">>],
     BaseEnv}

----------------------------------------------------------------------------
(* compiler.py: the drivers.  A driver call returns the result dict; the   *)
(* model also reports how many times subprocess.run was called (runs) and  *)
(* which processes the call leaves running when it returns (alive).        *)

\* the dict both drivers start from ("output", "execution_time", "abi" and
\* "bytecode" are carried along by the code and never read by the grader)
InitialResult ==
    [success |-> FALSE, compiled |-> FALSE, errors |-> <<>>, test_results |-> None]

\* subprocess.run(..., timeout=t) for a process that ends as p: on timeout
\* run() kills the process it started and waits for it, and nothing else;
\* what that process had started itself keeps running
left_running(argv, p, env) ==
    IF p = TimeoutExpired /\ env.orphans THEN {<<"started by", argv>>} ELSE {}

\* the time limits in seconds: timeout=5 of go mod init, and the default
\* timeout=30 of both drivers, which the grader never overrides
ModInitTimeout == 5
Timeout == 30

\* mutation of duration: a process is waited for without a time limit
duration_no_timeout(step, p, limit, env) ==
    IF p = TimeoutExpired THEN 2 * limit
    ELSE IF p = FileNotFoundError THEN 0
    ELSE IF step \in env.slow THEN limit ELSE 0

\* the seconds subprocess.run(..., timeout=limit) blocks for a process that
\* ends as p: the whole limit when it is exceeded, no time when the
\* executable is missing, else the time the process takes
duration(step, p, limit, env) ==
    IF p = TimeoutExpired THEN limit
    ELSE IF p = FileNotFoundError THEN 0
    ELSE IF step \in env.slow THEN limit ELSE 0

\* the seconds a driver call that ran `runs` processes was blocked
elapsed(language, env, runs) ==
    IF language = "go"
    THEN (IF runs >= 1 THEN duration("mod_init", env.mod_init, ModInitTimeout, env) ELSE 0)
         + (IF runs >= 2 THEN duration("build", env.build, Timeout, env) ELSE 0)
         + (IF runs >= 3 THEN duration("test", env.test, Timeout, env) ELSE 0)
    ELSE (IF runs >= 1 THEN duration("build", env.build, Timeout, env) ELSE 0)

Outcome(result, runs, alive) == [result |-> result, runs |-> runs, alive |-> alive]

\* the handler of the exception that subprocess.run raised
GoExcept(result, p) ==
    [result EXCEPT !.errors =
        IF p = TimeoutExpired THEN <<TimeoutMsg>> ELSE <<GoNotFoundMsg>>]

\* mutation of go_test_phase: the verdict is taken from the tally
go_test_phase_by_tally(result, env) ==
    IF env.test \in Raised
    THEN GoExcept(result, env.test)
    ELSE LET parsed == parse_test_output(env.stdout)
         IN  IF parsed.raised
             THEN [result EXCEPT !.errors = <<UnexpectedMsg>>]
             ELSE LET test_results ==
                          [passed |-> parsed.failed_tests = 0,
                           passed_count |-> parsed.passed_tests,
                           failed_count |-> parsed.failed_tests,
                           events |-> parsed.events]
                  IN  [result EXCEPT !.test_results = Some(test_results),
                                     !.success = test_results.passed]

\* the test phase of compile_go, entered with result["compiled"] = True
go_test_phase(result, env) ==
    IF env.test \in Raised
    THEN GoExcept(result, env.test)
    ELSE LET parsed == parse_test_output(env.stdout)
         IN  IF parsed.raised
             THEN [result EXCEPT !.errors = <<UnexpectedMsg>>]
             ELSE LET test_results ==
                          [passed |-> env.test.returncode = 0,
                           passed_count |-> parsed.passed_tests,
                           failed_count |-> parsed.failed_tests,
                           events |-> parsed.events]
                  IN  [result EXCEPT !.test_results = Some(test_results),
                                     !.success = test_results.passed]

\* mutation of compile_go: the test runner is started whatever test_code is
compile_go_always_tests(code, test_code, env) ==
    IF env.files = "oserror"
    THEN Outcome([InitialResult EXCEPT !.errors = <<UnexpectedMsg>>], 0, {})
    ELSE IF env.mod_init \in Raised
    THEN Outcome(GoExcept(InitialResult, env.mod_init), 1,
                 left_running("go mod init", env.mod_init, env))
    ELSE IF env.build \in Raised
    THEN Outcome(GoExcept(InitialResult, env.build), 2,
                 left_running("go build", env.build, env))
    ELSE LET compiled == [InitialResult EXCEPT !.compiled = env.build.returncode = 0]
         IN  IF env.build.returncode # 0
             THEN Outcome([compiled EXCEPT !.errors = error_lines(env.stderr)], 2, {})
             ELSE Outcome(go_test_phase(compiled, env), 3,
                          left_running("go test", env.test, env))

\* CodeCompiler.compile_go(code, test_code)
compile_go(code, test_code, env) ==
    IF env.files = "oserror"
    THEN Outcome([InitialResult EXCEPT !.errors = <<UnexpectedMsg>>], 0, {})
    ELSE IF env.mod_init \in Raised
    THEN Outcome(GoExcept(InitialResult, env.mod_init), 1,
                 left_running("go mod init", env.mod_init, env))
    ELSE IF env.build \in Raised
    THEN Outcome(GoExcept(InitialResult, env.build), 2,
                 left_running("go build", env.build, env))
    ELSE LET compiled == [InitialResult EXCEPT !.compiled = env.build.returncode = 0]
         IN  IF env.build.returncode # 0
             THEN Outcome([compiled EXCEPT !.errors = error_lines(env.stderr)], 2, {})
             ELSE IF test_code # ""
             THEN Outcome(go_test_phase(compiled, env), 3,
                          left_running("go test", env.test, env))
             ELSE Outcome([compiled EXCEPT !.success = TRUE], 2, {})

\* the dict compile_solidity starts from; it has no "test_results" key, and
\* the grader's result.get("test_results") is None
InitialSolidityResult ==
    [success |-> FALSE, compiled |-> FALSE, errors |-> <<>>,
     test_results |-> None, abi |-> None, bytecode |-> None]

\* mutation of compile_solidity: success needs output to take artifacts from
compile_solidity_needs_output(code, env) ==
    IF env.files = "oserror"
    THEN Outcome([InitialSolidityResult EXCEPT !.errors = <<UnexpectedMsg>>], 0, {})
    ELSE IF env.build \in Raised
    THEN Outcome([InitialSolidityResult EXCEPT !.errors =
                     IF env.build = TimeoutExpired
                     THEN <<TimeoutMsg>> ELSE <<SolcNotFoundMsg>>], 1,
                 left_running("solc", env.build, env))
    ELSE IF env.build.returncode # 0
    THEN Outcome([InitialSolidityResult EXCEPT !.errors = error_lines(env.stderr)], 1, {})
    ELSE Outcome([InitialSolidityResult EXCEPT !.compiled = env.stdout # <<>>,
                                               !.success = env.stdout # <<>>], 1, {})

\* CodeCompiler.compile_solidity(code)
compile_solidity(code, env) ==
    IF env.files = "oserror"
    THEN Outcome([InitialSolidityResult EXCEPT !.errors = <<UnexpectedMsg>>], 0, {})
    ELSE IF env.build \in Raised
    THEN Outcome([InitialSolidityResult EXCEPT !.errors =
                     IF env.build = TimeoutExpired
                     THEN <<TimeoutMsg>> ELSE <<SolcNotFoundMsg>>], 1,
                 left_running("solc", env.build, env))
    ELSE IF env.build.returncode # 0
    THEN Outcome([InitialSolidityResult EXCEPT !.errors = error_lines(env.stderr)], 1, {})
    ELSE Outcome([InitialSolidityResult EXCEPT !.compiled = TRUE, !.success = TRUE], 1, {})

----------------------------------------------------------------------------
(* crud.py: the persistence collaborator *)

\* mutation of count_by_task: the filter on task_id is lost
count_all(subs, task_id) == Len(subs)

\* db.query(TaskSubmission).filter(TaskSubmission.task_id == task_id).count()
count_by_task(subs, task_id) ==
    Cardinality({i \in DOMAIN subs : subs[i].task_id = task_id})

\* mutation of new_submission: the rows are counted again when inserting
new_submission_recount(subs, task_id, passed, previous_attempts) ==
    [id |-> Len(subs) + 1,
     task_id |-> task_id,
     passed |-> passed,
     attempts |-> count_by_task(subs, task_id) + 1]

\* the row create_task_submission inserts; the columns that only store the
\* request payload (user_code, review_answers, found_issues, improved_code,
\* time_spent) and the result dicts are never read back by the grader
new_submission(subs, task_id, passed, previous_attempts) ==
    [id |-> Len(subs) + 1,
     task_id |-> task_id,
     passed |-> passed,
     attempts |-> previous_attempts + 1]

\* create_task_submission run without interruption: count, then build the row
create_task_submission(subs, task_id, passed) ==
    new_submission(subs, task_id, passed, count_by_task(subs, task_id))

\* mutation of db_add: the row takes the place of the task's latest row
db_add_replace(subs, submission) ==
    IF \E i \in DOMAIN subs : subs[i].task_id = submission.task_id
    THEN LET last == CHOOSE i \in DOMAIN subs :
                        /\ subs[i].task_id = submission.task_id
                        /\ \A j \in DOMAIN subs :
                              subs[j].task_id = submission.task_id => j <= i
         IN  [subs EXCEPT ![last] = [submission EXCEPT !.id = subs[last].id]]
    ELSE Append(subs, submission)

\* db.add(submission); db.commit(); db.refresh(submission)
db_add(subs, submission) == Append(subs, submission)

----------------------------------------------------------------------------
(* main.py: requests, tasks and the record kept of the last call *)

\* the worker processes of the server and what each is in the middle of
Workers == {1, 2}
NoWorker == [w \in Workers |-> None]

\* defect labels; "A" and "a" differ only in case
Labels == {"a", "b", "A"}

Request(user_code, review_answers, found_issues) ==
    [user_code |-> user_code, review_answers |-> review_answers,
     found_issues |-> found_issues]

\* Python truthiness of an Optional str / list and of an Optional dict
\* (a dict is modelled by its set of keys)
TruthyStr(o) == ~IsNone(o) /\ Val(o) # ""
TruthyList(o) == ~IsNone(o) /\ Val(o) # <<>>
TruthyDict(o) == ~IsNone(o) /\ Val(o) # {}

UserCodes == {None, Some(""), Some("package main")}
ReviewAnswers == {None, Some({}), Some({"q1"})}

WriteRequests == {Request(c, None, None) : c \in UserCodes}

Task(task_type, language, test_code, hints, expected_issues) ==
    [task_type |-> task_type, language |-> language, test_code |-> test_code,
     hints |-> hints, expected_issues |-> expected_issues]

NoCall ==
    [path |-> "none", task_id |-> 0, request |-> Request(None, None, None),
     env |-> BaseEnv, status |-> 0, detail |-> "", runs |-> 0,
     alive |-> {}, temp_dir |-> None, created |-> FALSE, elapsed |-> 0,
     probe |-> None, query |-> None,
     result |-> None, submission |-> None, response |-> None]

\* raise HTTPException(status, detail), or an unhandled exception (500)
HTTPException(path, task_id, req, env, status, detail, runs) ==
    [NoCall EXCEPT !.path = path, !.task_id = task_id, !.request = req, !.env = env,
                   !.status = status, !.detail = detail, !.runs = runs]

----------------------------------------------------------------------------
(* main.py: the review path *)

\* str.lower() on the labels
lower(label) == IF label = "A" THEN "a" ELSE label

\* mutation of match_issues: labels are compared without regard to case
match_issues_casefold(found_issues, expected_issues) ==
    {l \in ToSet(found_issues) :
        \E j \in DOMAIN expected_issues : lower(expected_issues[j]) = lower(l)}

\* matched_issues = set(found_issues) & set(expected_issues)
match_issues(found_issues, expected_issues) ==
    ToSet(found_issues) \cap ToSet(expected_issues)

\* score = len(matched_issues) / len(expected_issues) if expected_issues else 0
\* kept as the fraction num/den (0/1 for the else branch)
review_score(matched_issues, expected_issues) ==
    IF expected_issues # <<>>
    THEN [num |-> Cardinality(matched_issues), den |-> Len(expected_issues)]
    ELSE [num |-> 0, den |-> 1]

\* mutation of review_passed: strict comparison
review_passed_strict(score) == 5 * score.num > 3 * score.den

\* score >= 0.6
review_passed(score) == 5 * score.num >= 3 * score.den

\* round(score * 100, 1), in tenths of a percent (ties to even)
round_score(score) ==
    LET q == (1000 * score.num) \div score.den
        r == (1000 * score.num) % score.den
    IN  IF 2 * r < score.den THEN q
        ELSE IF 2 * r > score.den THEN q + 1
        ELSE IF q % 2 = 0 THEN q ELSE q + 1

\* _generate_review_feedback: the tier of the message and the labels it names
generate_review_feedback(matched, expected, found) ==
    IF Cardinality(matched) = Len(expected)
    THEN [tier |-> "congratulatory", missing |-> {}]
    ELSE IF 5 * Cardinality(matched) >= 3 * Len(expected)
    THEN [tier |-> "partial", missing |-> ToSet(expected) \ matched]
    ELSE [tier |-> "remedial", missing |-> ToSet(expected) \ matched]

\* mutation of missing_review_input: rejects unless both are given
missing_review_input_either(req) ==
    ~TruthyDict(req.review_answers) \/ ~TruthyList(req.found_issues)

\* not submission_data.review_answers and not submission_data.found_issues
missing_review_input(req) ==
    ~TruthyDict(req.review_answers) /\ ~TruthyList(req.found_issues)

\* _submit_review_task, from validation to the response
submit_review_task(task_id, req) ==
    IF missing_review_input(req)
    THEN /\ call' = HTTPException("review", task_id, req, BaseEnv, 400,
                                  "review_answers or found_issues required", 0)
         /\ UNCHANGED <<tasks, submissions, compiler_instance>>
    ELSE LET task == tasks[task_id]
             found_issues == IF TruthyList(req.found_issues) THEN Val(req.found_issues) ELSE <<>>
             expected_issues == task.expected_issues
             matched_issues == match_issues(found_issues, expected_issues)
             score == review_score(matched_issues, expected_issues)
             passed == review_passed(score)
             submission == create_task_submission(submissions, task_id, passed)
         IN  /\ submissions' = db_add(submissions, submission)
             /\ call' = [NoCall EXCEPT
                   !.path = "review", !.task_id = task_id, !.request = req,
                   !.status = 200,
                   !.submission = Some(submission),
                   !.response = Some(
                       [success |-> passed,
                        submission_id |-> submission.id,
                        score |-> round_score(score),
                        matched_issues |-> matched_issues,
                        expected_issues |-> expected_issues,
                        found_issues |-> found_issues,
                        attempts |-> submission.attempts,
                        feedback |-> generate_review_feedback(
                                        matched_issues, expected_issues, found_issues)])]
             /\ UNCHANGED <<tasks, compiler_instance>>

----------------------------------------------------------------------------
(* main.py: the write path *)

\* compiler.py get_compiler: the singleton after the call, or the failure of
\* tempfile.mkdtemp when the singleton has to be constructed
get_compiler(instance, env) ==
    IF ~IsNone(instance)
    THEN [raised |-> FALSE, instance |-> instance, created |-> FALSE]
    ELSE IF env.mkdtemp = "oserror"
    THEN [raised |-> TRUE, instance |-> None, created |-> FALSE]
    ELSE [raised |-> FALSE, created |-> TRUE,
          instance |-> Some([temp_dir |-> "claudetests_1", exists |-> TRUE])]

\* CodeCompiler.cleanup: shutil.rmtree(temp_dir); no handler calls it
cleanup(instance) ==
    IF ~IsNone(instance) /\ Val(instance).exists
    THEN Some([Val(instance) EXCEPT !.exists = FALSE])
    ELSE instance

\* mutation of write_verdict: the test outcome is not consulted
write_verdict_compiled(task, result) ==
    [raised |-> FALSE, passed |-> result.compiled]

\* mutation of write_verdict: test_results is read whatever result.success is
write_verdict_no_guard(task, result) ==
    IF task.language = "go" /\ task.test_code # ""
    THEN IF IsNone(result.test_results)
         THEN [raised |-> TRUE, passed |-> FALSE]
         ELSE [raised |-> FALSE,
               passed |-> result.success /\ Val(result.test_results).passed]
    ELSE [raised |-> FALSE, passed |-> result.success /\ result.compiled]

\* the verdict computed from the result dict; raised stands for the
\* AttributeError of None.get when test_results is None
write_verdict(task, result) ==
    IF task.language = "go"
    THEN IF ~result.success THEN [raised |-> FALSE, passed |-> FALSE]
         ELSE IF task.test_code # ""
         THEN IF IsNone(result.test_results)
              THEN [raised |-> TRUE, passed |-> FALSE]
              ELSE [raised |-> FALSE, passed |-> Val(result.test_results).passed]
         ELSE [raised |-> FALSE, passed |-> result.compiled]
    ELSE [raised |-> FALSE, passed |-> result.compiled]

\* mutation of write_hints: one hint too many
write_hints_off_by_one(task, passed, attempts) ==
    IF ~passed /\ attempts >= 2 /\ task.hints # <<>>
    THEN Some(Take(task.hints, attempts))
    ELSE None

\* mutation of write_hints: hints also after a passed submission
write_hints_when_passed(task, passed, attempts) ==
    IF attempts >= 2 /\ task.hints # <<>>
    THEN Some(Take(task.hints, attempts - 1))
    ELSE None

\* mutation of write_hints: a failed retry always shows the first hint only
write_hints_one(task, passed, attempts) ==
    IF ~passed /\ attempts >= 2 /\ task.hints # <<>>
    THEN Some(Take(task.hints, 1))
    ELSE None

\* response["hints"], or None when the key is not added
write_hints(task, passed, attempts) ==
    IF ~passed /\ attempts >= 2 /\ task.hints # <<>>
    THEN Some(Take(task.hints, attempts - 1))
    ELSE None

\* mutation of missing_user_code: only a missing field is rejected
missing_user_code_none(req) == IsNone(req.user_code)

\* not submission_data.user_code
missing_user_code(req) == ~TruthyStr(req.user_code)

\* mutation of supported_language: the solidity branch is lost
supported_language_go(task) == task.language = "go"

\* the if / elif chain on task.language has a branch for the language
supported_language(task) == task.language \in {"go", "solidity"}

\* the environments a write call for this task can meet: the failure of
\* mkdtemp, or what the task's driver meets (all = the bounded streams,
\* otherwise one environment per exit path)
EnvsFor(task, all) ==
    {[BaseEnv EXCEPT !.mkdtemp = "oserror"]}
    \cup (IF task.language = "go"
          THEN (IF all THEN GoEnvs(task.test_code) ELSE GoPaths(task.test_code))
          ELSE IF task.language = "solidity"
          THEN (IF all THEN SolidityEnvs ELSE SolidityPaths)
          ELSE {BaseEnv})

\* _submit_write_task, from validation to the response
submit_write_task(task_id, req, env) ==
    LET task == tasks[task_id]
        got == get_compiler(compiler_instance, env)
    IN
    IF missing_user_code(req)
    THEN /\ call' = HTTPException("write", task_id, req, BaseEnv, 400,
                                  "user_code required", 0)
         /\ UNCHANGED <<tasks, submissions, compiler_instance>>
    ELSE IF got.raised
    THEN /\ call' = HTTPException("write", task_id, req, env, 500, "OSError", 0)
         /\ UNCHANGED <<tasks, submissions, compiler_instance>>
    ELSE IF ~supported_language(task)
    THEN /\ call' = HTTPException("write", task_id, req, env, 400,
                                  "language not supported", 0)
         /\ compiler_instance' = got.instance
         /\ UNCHANGED <<tasks, submissions>>
    ELSE LET out == IF task.language = "go"
                    THEN compile_go(Val(req.user_code), task.test_code, env)
                    ELSE compile_solidity(Val(req.user_code), env)
             result == out.result
             verdict == write_verdict(task, result)
             passed == verdict.passed
             submission == create_task_submission(submissions, task_id, passed)
         IN  /\ compiler_instance' = got.instance
             /\ IF verdict.raised
                THEN /\ call' = HTTPException("write", task_id, req, env, 500,
                                              "AttributeError", out.runs)
                     /\ UNCHANGED submissions
                ELSE /\ submissions' = db_add(submissions, submission)
                     /\ call' = [NoCall EXCEPT
                          !.path = "write", !.task_id = task_id, !.request = req,
                          !.env = env, !.status = 200, !.runs = out.runs,
                          !.alive = out.alive,
                          !.elapsed = elapsed(task.language, env, out.runs),
                          !.temp_dir = Some(Val(got.instance).temp_dir),
                          !.created = got.created,
                          !.result = Some(result),
                          !.submission = Some(submission),
                          !.response = Some(
                              [success |-> passed,
                               submission_id |-> submission.id,
                               compilation |-> [compiled |-> result.compiled,
                                                errors |-> result.errors],
                               test_results |-> result.test_results,
                               attempts |-> submission.attempts,
                               hints |-> write_hints(task, passed, submission.attempts)])]
             /\ UNCHANGED tasks

----------------------------------------------------------------------------
(* main.py: submit_task_solution, POST /api/tasks/{task_id}/submit *)

\* the task does not exist: 404
SubmitUnknownTask(task_id, req) ==
    /\ task_id \notin DOMAIN tasks
    /\ call' = HTTPException("unknown", task_id, req, BaseEnv, 404, "task not found", 0)
    /\ UNCHANGED <<tasks, submissions, compiler_instance, inflight, user_answers>>

SubmitReviewTask(task_id, req) ==
    /\ task_id \in DOMAIN tasks
    /\ tasks[task_id].task_type = "review"
    /\ submit_review_task(task_id, req)
    /\ UNCHANGED <<inflight, user_answers>>

SubmitWriteTask(task_id, req, all) ==
    /\ task_id \in DOMAIN tasks
    /\ tasks[task_id].task_type # "review"
    /\ IF missing_user_code(req)
       THEN submit_write_task(task_id, req, BaseEnv)
       ELSE \E env \in EnvsFor(tasks[task_id], all) :
               /\ env.mkdtemp = "oserror" => IsNone(compiler_instance)
               /\ submit_write_task(task_id, req, env)
    /\ UNCHANGED <<inflight, user_answers>>

----------------------------------------------------------------------------
(* The grader specification: a catalogue of imported tasks, any request to *)
(* any task id, one call at a time, one environment per driver exit path.  *)

Hints == <<"hint 1", "hint 2", "hint 3">>

Catalogue ==
    <<Task("write", "go", "package main_test", Hints, <<>>),
      Task("write", "solidity", "contract Test {}", Take(Hints, 1), <<>>),
      Task("write", "python", "", Take(Hints, 2), <<>>),
      Task("review", "go", "", <<>>, <<"a", "b">>)>>

TaskIds == 1..(Len(Catalogue) + 1)

GraderFound == {None, Some(<<>>), Some(<<"a">>), Some(<<"b", "a">>)}

Requests ==
    WriteRequests
    \cup {Request(None, ra, f) : ra \in ReviewAnswers, f \in GraderFound}

Init ==
    /\ tasks = Catalogue
    /\ submissions = <<>>
    /\ compiler_instance = None
    /\ call = NoCall
    /\ inflight = NoWorker
    /\ user_answers = <<>>

Next ==
    \/ \E task_id \in TaskIds, req \in Requests : SubmitUnknownTask(task_id, req)
    \/ \E task_id \in TaskIds, req \in Requests :
          /\ Len(submissions) < MaxSubs
          /\ SubmitReviewTask(task_id, req)
    \/ \E task_id \in TaskIds, req \in Requests :
          /\ Len(submissions) < MaxSubs
          /\ SubmitWriteTask(task_id, req, FALSE)

Spec == Init /\ [][Next]_vars

----------------------------------------------------------------------------
(* The driver specification: one write call on a task of each driver kind, *)
(* over every diagnostic and event stream up to the bounds, or one probe   *)
(* of a toolchain and a write call after it.                               *)

DriverCatalogue ==
    <<Task("write", "go", "package main_test", Hints, <<>>),
      Task("write", "go", "", Hints, <<>>),
      Task("write", "solidity", "contract Test {}", Hints, <<>>)>>

InitDriver ==
    /\ tasks = DriverCatalogue
    /\ submissions = <<>>
    /\ compiler_instance = None
    /\ call = NoCall
    /\ inflight = NoWorker
    /\ user_answers = <<>>

\* the toolchains and the ways a version query can end
Tools == {"go", "solc"}
ProbeOutcomes == {Exited(0), Exited(1), TimeoutExpired, FileNotFoundError}

\* mutation of check_installed: true whenever the command ran
check_installed_ran(p) == p \notin Raised

\* check_go_installed / check_solc_installed: the exit code of the version
\* query is zero; any exception gives False
check_installed(p) ==
    IF p \in Raised THEN FALSE ELSE p.returncode = 0

\* get_compiler().check_go_installed() or .check_solc_installed(); no
\* handler of main.py calls them
CheckInstalled(tool, p) ==
    LET got == get_compiler(compiler_instance, BaseEnv)
    IN  /\ compiler_instance' = got.instance
        /\ call' = [NoCall EXCEPT !.path = "probe", !.status = 200,
                                   !.probe = Some([tool |-> tool, process |-> p]),
                                   !.response = Some(check_installed(p))]
        /\ UNCHANGED <<tasks, submissions, inflight, user_answers>>

NextDriver ==
    \/ \E task_id \in DOMAIN DriverCatalogue, req \in WriteRequests :
          /\ call = NoCall
          /\ SubmitWriteTask(task_id, req, TRUE)
    \/ \E tool \in Tools, p \in ProbeOutcomes :
          /\ call = NoCall
          /\ CheckInstalled(tool, p)
    \/ \E task_id \in DOMAIN DriverCatalogue, req \in WriteRequests :
          /\ call.path = "probe"
          /\ SubmitWriteTask(task_id, req, FALSE)

SpecDriver == InitDriver /\ [][NextDriver]_vars

----------------------------------------------------------------------------
(* The review specification: one review call, over every expected_issues   *)
(* and found_issues list up to the bounds.                                 *)

ReviewFound == {None} \cup {Some(f) : f \in SeqsUpTo(Labels, MaxFound)}

InitReview ==
    /\ \E expected_issues \in SeqsUpTo(Labels, MaxExpected) :
          tasks = <<Task("review", "go", "", <<>>, expected_issues)>>
    /\ submissions = <<>>
    /\ compiler_instance = None
    /\ call = NoCall
    /\ inflight = NoWorker
    /\ user_answers = <<>>

NextReview ==
    \E ra \in ReviewAnswers, f \in ReviewFound :
        /\ submissions = <<>>
        /\ SubmitReviewTask(1, Request(None, ra, f))

SpecReview == InitReview /\ [][NextReview]_vars

----------------------------------------------------------------------------
(* Properties *)

\* the call just completed went down this path and returned a response body
Answered(path) == call.path = path /\ call.status = 200

\* the number of rows of the table before row i that belong to the same task
PriorOf(i) ==
    Cardinality({j \in 1..(i - 1) : submissions[j].task_id = submissions[i].task_id})

\* C1: every stored Submission carries attempt ordinal 1 + the number of
\* Submissions stored before it for the same task (rows of other tasks do
\* not count), and the call that created it reports that ordinal, on the
\* write path and on the review path.
C1_AttemptOrdinal ==
    /\ \A i \in DOMAIN submissions : submissions[i].attempts = 1 + PriorOf(i)
    /\ call.status = 200 =>
          /\ Val(call.submission) = submissions[Len(submissions)]
          /\ Val(call.submission).task_id = call.task_id
          /\ Val(call.response).attempts = 1 + PriorOf(Len(submissions))

\* a second attempt at a review task stored right after a row of another task
C1_Witness ==
    /\ Answered("review")
    /\ Len(submissions) = 3
    /\ submissions[2].task_id # call.task_id
    /\ submissions[3].attempts = 2

\* C2: on the write path with the Go driver, passed = compiled AND (the test
\* outcome passed if the task has test source, else true), where a test
\* outcome that was not produced counts as not passed; the stored
\* Submission.passed and the response's success both equal this value, and
\* when the build and the test runner exited it is decided by their exit
\* codes and the presence of test source.
C2_GoVerdict ==
    (Answered("write") /\ tasks[call.task_id].language = "go") =>
        LET result == Val(call.result)
            tested == tasks[call.task_id].test_code # ""
            test_passed == /\ ~IsNone(result.test_results)
                           /\ Val(result.test_results).passed
            verdict == result.compiled /\ (tested => test_passed)
        IN  /\ Val(call.submission).passed = verdict
            /\ Val(call.response).success = verdict
            /\ call.runs >= 2 /\ call.env.build.status = "exited" =>
                  result.compiled = (call.env.build.returncode = 0)
            /\ ~IsNone(result.test_results) =>
                  Val(result.test_results).passed = (call.env.test.returncode = 0)
            /\ (~tested /\ call.runs = 2 /\ call.env.build.status = "exited") =>
                  verdict = (call.env.build.returncode = 0)

\* the build succeeded and the test runner exited nonzero: not passed
C2_Witness ==
    /\ Answered("write")
    /\ tasks[call.task_id].language = "go"
    /\ tasks[call.task_id].test_code # ""
    /\ Val(call.result).compiled
    /\ call.env.test = Exited(1)
    /\ ~IsNone(Val(call.result).test_results)
    /\ ~Val(call.response).success

\* the found_issues list the review path works on
FoundOf(req) == IF IsNone(req.found_issues) THEN <<>> ELSE Val(req.found_issues)

\* C3: on the review path matched = foundIssues \cap expectedIssues as sets,
\* score = |matched| / (number of entries of expectedIssues) reported as a
\* percentage to the nearest tenth when expectedIssues is non-empty and 0
\* when it is empty, and passed holds exactly when score >= 0.60; an empty
\* expectedIssues yields score 0 and passed = false.
C3_ReviewScore ==
    Answered("review") =>
        LET expected == tasks[call.task_id].expected_issues
            found == FoundOf(call.request)
            matched == {l \in Labels :
                          /\ \E i \in DOMAIN found : found[i] = l
                          /\ \E j \in DOMAIN expected : expected[j] = l}
            m == Cardinality(matched)
            n == Len(expected)
            response == Val(call.response)
            distance == response.score * n - 1000 * m
        IN  /\ response.matched_issues = matched
            /\ n > 0 => /\ 2 * distance <= n /\ 2 * distance >= -n
                        /\ response.success = (5 * m >= 3 * n)
            /\ n = 0 => response.score = 0 /\ ~response.success
            /\ Val(call.submission).passed = response.success

\* three of five expected issues matched: exactly 0.60, passed
C3_Witness ==
    /\ Answered("review")
    /\ Len(tasks[call.task_id].expected_issues) = 5
    /\ Cardinality(Val(call.response).matched_issues) = 3
    /\ Val(call.response).score = 600
    /\ Val(call.response).success

\* C4: on the review path, whenever the submitted foundIssues equals the
\* task's (non-empty) expectedIssues, repeated labels included, the response
\* has score 100.0, passed = true and the congratulatory feedback.
C4_FullMatch ==
    (/\ Answered("review")
     /\ ~IsNone(call.request.found_issues)
     /\ Val(call.request.found_issues) = tasks[call.task_id].expected_issues
     /\ tasks[call.task_id].expected_issues # <<>>) =>
        /\ Val(call.response).score = 1000
        /\ Val(call.response).success
        /\ Val(call.response).feedback.tier = "congratulatory"

\* the hints a task defines from position 1 to k (all of them when k is larger)
FirstHints(task, k) ==
    [i \in 1..(IF k < Len(task.hints) THEN k ELSE Len(task.hints)) |-> task.hints[i]]

\* the attempt ordinal of the call just answered, counted on the table
AttemptOfCall == Cardinality({i \in DOMAIN submissions : submissions[i].task_id = call.task_id})

\* C5: a write submission that did not pass, has attempt ordinal n >= 2 and
\* whose task defines hints gets a response exposing exactly the first n-1
\* hints of the task in authored order (all of them when there are fewer).
C5_HintsExposed ==
    (/\ Answered("write")
     /\ ~Val(call.response).success
     /\ AttemptOfCall >= 2
     /\ tasks[call.task_id].hints # <<>>) =>
        Val(call.response).hints = Some(FirstHints(tasks[call.task_id], AttemptOfCall - 1))

\* the third failed attempt at the task with three hints exposes the first two
C5_Witness ==
    /\ Answered("write")
    /\ ~Val(call.response).success
    /\ AttemptOfCall = 3
    /\ Len(tasks[call.task_id].hints) = 3
    /\ Val(call.response).hints = Some(<<"hint 1", "hint 2">>)

\* C6: the response of a write submission that is the first attempt for its
\* task, or that passed, exposes no hints, whatever the attempt ordinal and
\* the hints of the task.
C6_NoHints ==
    (Answered("write") /\ (AttemptOfCall = 1 \/ Val(call.response).success)) =>
        IsNone(Val(call.response).hints)

\* a passed second attempt at a task that defines hints
C6_Witness ==
    /\ Answered("write")
    /\ Val(call.response).success
    /\ AttemptOfCall >= 2
    /\ tasks[call.task_id].hints # <<>>
    /\ IsNone(Val(call.response).hints)

\* C7: a write-path call with missing or empty submitted code returns the
\* validation error at once: no external process is run, no Submission is
\* persisted and the table the next call counts on is unchanged.
C7_MissingCode ==
    [][(call'.path = "write" /\ call'.request.user_code \in {None, Some("")}) =>
          /\ call'.status = 400
          /\ call'.detail = "user_code required"
          /\ call'.runs = 0
          /\ IsNone(call'.submission)
          /\ submissions' = submissions]_vars

\* empty code sent to a task that already has a stored submission
C7_Witness ==
    /\ call.path = "write"
    /\ call.request.user_code = Some("")
    /\ call.status = 400
    /\ \E i \in DOMAIN submissions : submissions[i].task_id = call.task_id

\* the review call was rejected by validation and stored nothing
ReviewRejected == call'.status = 400 /\ IsNone(call'.submission) /\ submissions' = submissions

\* the review call was scored and stored exactly one Submission
ReviewPersisted ==
    /\ call'.status = 200
    /\ ~IsNone(call'.response)
    /\ submissions' = Append(submissions, Val(call'.submission))

\* C8 as stated: a review call that supplies neither review answers nor a
\* found-issues list is rejected and persists nothing; a call that supplies
\* at least one of the two is scored and persisted.
C8_Original ==
    [][call'.path = "review" =>
          IF IsNone(call'.request.review_answers) /\ IsNone(call'.request.found_issues)
          THEN ReviewRejected
          ELSE ReviewPersisted]_vars

\* C8 amended: a review call in which the review answers and the
\* found-issues list are both missing or empty is rejected and persists
\* nothing; a call in which at least one of the two is non-empty is scored
\* and persisted.
C8_ReviewValidation ==
    [][call'.path = "review" =>
          IF /\ call'.request.review_answers \in {None, Some({})}
             /\ call'.request.found_issues \in {None, Some(<<>>)}
          THEN ReviewRejected
          ELSE ReviewPersisted]_vars

\* an empty found-issues list with non-empty review answers was scored
C8_Witness ==
    /\ Answered("review")
    /\ call.request.found_issues = Some(<<>>)
    /\ call.request.review_answers = Some({"q1"})
    /\ Val(call.submission) = submissions[Len(submissions)]

\* the request of the call passes the input validation of its path
PassesValidation(c) ==
    IF c.path = "write"
    THEN c.request.user_code \notin {None, Some("")}
    ELSE ~(/\ c.request.review_answers \in {None, Some({})}
           /\ c.request.found_issues \in {None, Some(<<>>)})

\* exactly one Submission was stored by the call
PersistedOne ==
    /\ call'.status = 200
    /\ submissions' = Append(submissions, Val(call'.submission))

\* C9 as stated: every call for an existing task that passes input
\* validation persists exactly one Submission, for every task language and
\* driver outcome (the workspace could be created); all other calls
\* persist nothing.
C9_Original ==
    [][(call'.path \in {"write", "review"} /\ call'.env.mkdtemp = "ok") =>
          IF PassesValidation(call')
          THEN PersistedOne
          ELSE submissions' = submissions]_vars

\* C9 amended: every call for an existing task that passes input validation
\* persists exactly one Submission on the review path, and on the write
\* path when the task's language is go or solidity, for every driver
\* outcome; a write call for a task of another language, a call that fails
\* validation and a call that cannot create the compiler's directory end
\* with an error and persist nothing.
C9_PersistedOnce ==
    [][call'.path \in {"write", "review"} =>
          IF /\ PassesValidation(call')
             /\ call'.env.mkdtemp = "ok"
             /\ call'.path = "write" => tasks[call'.task_id].language \in {"go", "solidity"}
          THEN PersistedOne
          ELSE call'.status # 200 /\ submissions' = submissions]_vars

\* a compile-only call whose compiler timed out was persisted
C9_Witness ==
    /\ Answered("write")
    /\ tasks[call.task_id].language = "solidity"
    /\ call.env.build = TimeoutExpired
    /\ Val(call.submission) = submissions[Len(submissions)]

\* some external process of the driver call exceeded its timeout
TimedOut ==
    \/ call.runs >= 1 /\ tasks[call.task_id].language = "go"
                      /\ call.env.mod_init = TimeoutExpired
    \/ call.env.build = TimeoutExpired
    \/ call.runs = 3 /\ call.env.test = TimeoutExpired

\* C10: whenever an external process of a driver call exceeds the timeout
\* (module init, build or test run), the outcome has compiled = false and
\* carries the timeout message, and the verdict is passed = false.
C10_Timeout ==
    (Answered("write") /\ TimedOut) =>
        /\ ~Val(call.result).compiled
        /\ Val(call.result).errors = <<TimeoutMsg>>
        /\ ~Val(call.response).success
        /\ ~Val(call.submission).passed

\* C11: after a driver call that hit the timeout has returned, no process
\* spawned by that call is still running: the tool and every process the
\* tool started have been terminated.
C11_NoProcessLeft ==
    (Answered("write") /\ TimedOut) => call.alive = {}

\* the executable of the tool the driver started could not be found
ToolchainMissing ==
    \/ call.runs = 1 /\ tasks[call.task_id].language = "go"
                     /\ call.env.mod_init = FileNotFoundError
    \/ call.runs >= 1 /\ call.env.build = FileNotFoundError
    \/ call.runs = 3 /\ call.env.test = FileNotFoundError

\* C12: when the toolchain executable is missing the grader does not score
\* the call as a learner failure: no failed attempt is stored for it, so
\* the call raises no attempt ordinal and releases no hints later.
C12_ToolchainUnavailable ==
    (Answered("write") /\ ToolchainMissing) =>
        IsNone(call.submission)

\* C13: every verification call works in a fresh workspace directory of
\* its own: the directory a driver call writes in was created for that
\* call, so no earlier call wrote its files there.
C13_OwnWorkspace ==
    Answered("write") => (~IsNone(call.temp_dir) /\ call.created)

\* C14: after a verification call has returned, on every exit path of the
\* driver, the workspace of that call no longer exists.
C14_WorkspaceReleased ==
    Answered("write") =>
        (~IsNone(compiler_instance) /\ ~Val(compiler_instance).exists)

\* the build tool ran to completion and exited nonzero
BuildFailed ==
    /\ call.runs = (IF tasks[call.task_id].language = "go" THEN 2 ELSE 1)
    /\ call.env.build.status = "exited"
    /\ call.env.build.returncode # 0

\* C15: for submitted code that fails to build, the outcome has
\* compiled = false, the verdict is passed = false, and the errors list is
\* non-empty and holds only non-blank lines, whatever the tool printed.
C15_BuildErrors ==
    (Answered("write") /\ BuildFailed) =>
        LET result == Val(call.result)
        IN  /\ ~result.compiled
            /\ ~Val(call.submission).passed
            /\ result.errors # <<>>
            /\ \A i \in 1..Len(result.errors) : NonBlank(result.errors[i])

\* the test runner of a build-and-test call ran to completion
TestsRan ==
    /\ Answered("write")
    /\ tasks[call.task_id].language = "go"
    /\ call.runs = 3
    /\ call.env.test.status = "exited"

\* the number of lines of an output that are the line l
CountLines(stdout, l) == Cardinality({i \in DOMAIN stdout : stdout[i] = l})

\* the lines that hold a JSON object
IsEventLine(l) == l \in {LinePass, LineFail, LineRun, LineNoAction}

\* the tally of the test outcome is the tally of the output's event lines
TallyOf(test_results, stdout) ==
    /\ ~IsNone(test_results)
    /\ Val(test_results).passed_count = CountLines(stdout, LinePass)
    /\ Val(test_results).failed_count = CountLines(stdout, LineFail)
    /\ Val(test_results).events = SelectSeq(stdout, IsEventLine)

\* C16: for every test-runner output made of event lines, blank lines and
\* lines that fail to decode, the parsed outcome has passed_count = the
\* number of event lines with action "pass" and failed_count = the number
\* with action "fail"; event lines with another action or none are recorded
\* as events and not tallied, and a line that fails to decode is dropped
\* without changing the count of the others.
C16_Tally ==
    (TestsRan /\ CountLines(call.env.stdout, LineNumber) = 0) =>
        TallyOf(Val(call.result).test_results, call.env.stdout)

\* three "pass" events, one malformed line, one "fail" event: 3 and 1
C16_Witness ==
    /\ TestsRan
    /\ call.env.stdout = <<LinePass, LinePass, LinePass, LineGarbage, LineFail>>
    /\ Val(Val(call.result).test_results).passed_count = 3
    /\ Val(Val(call.result).test_results).failed_count = 1
    /\ Len(Val(Val(call.result).test_results).events) = 4

\* C17: the parser never aborts: for every output of a completed test run,
\* lines that are undecodable or decode to something that is not an event
\* object included, the outcome carries a test outcome record whose
\* counters cover the recognized events.
C17_ParserNeverAborts ==
    TestsRan => TallyOf(Val(call.result).test_results, call.env.stdout)

\* C18: the verdict of the test phase is the test runner's exit code alone:
\* the test outcome's passed, and with it the driver's success, holds
\* exactly when the runner exited with code zero, whatever the tally says.
C18_ExitCodeVerdict ==
    (TestsRan /\ ~IsNone(Val(call.result).test_results)) =>
        LET test_results == Val(Val(call.result).test_results)
        IN  /\ test_results.passed = (call.env.test.returncode = 0)
            /\ Val(call.result).success = (call.env.test.returncode = 0)
            /\ Val(call.response).success = (call.env.test.returncode = 0)

\* the runner exited with code zero although a "fail" event was tallied
C18_Witness ==
    /\ TestsRan
    /\ call.env.test.returncode = 0
    /\ ~IsNone(Val(call.result).test_results)
    /\ Val(Val(call.result).test_results).failed_count >= 1
    /\ Val(Val(call.result).test_results).passed

\* the driver call of a write call ran into a failure of some step
DriverFailed ==
    LET env == call.env
        task == tasks[call.task_id]
    IN  \/ env.files = "oserror"
        \/ task.language = "go" /\ env.mod_init \in Raised
        \/ env.build # Exited(0)
        \/ /\ task.language = "go" /\ task.test_code # ""
           /\ \/ env.test # Exited(0)
              \/ CountLines(env.stdout, LineNumber) > 0

\* C19: a failure of a step of the driver never leaves the driver call as
\* an exception: for every write call that reaches a driver, the driver
\* returns a result, the call is answered and a Submission is stored from
\* the result; when a step failed (nonzero exit, timeout, missing
\* executable, file error, parse error) the result says so: success is
\* false and the Submission is not passed.
C19_NoRaise ==
    (/\ call.path = "write"
     /\ ~missing_user_code(call.request)
     /\ call.env.mkdtemp = "ok") =>
        /\ call.status = 200
        /\ ~IsNone(call.result)
        /\ ~IsNone(call.submission)
        /\ submissions # <<>>
        /\ submissions[Len(submissions)] = Val(call.submission)
        /\ Val(call.submission).passed = Val(call.result).success
        /\ DriverFailed => /\ ~Val(call.result).success
                           /\ IsNone(Val(call.result).test_results)
                              \/ ~Val(Val(call.result).test_results).passed

\* a build that failed without tests having run was stored as not passed
C19_Witness ==
    /\ Answered("write")
    /\ tasks[call.task_id].language = "go"
    /\ tasks[call.task_id].test_code # ""
    /\ BuildFailed
    /\ IsNone(Val(call.result).test_results)
    /\ submissions[Len(submissions)] = Val(call.submission)
    /\ ~Val(call.submission).passed

\* C20: the feedback tier follows the score: remedial exactly when
\* score < 0.60, partial exactly when score >= 0.60 and some expected issue
\* is unmatched, congratulatory exactly when score >= 0.60 and every
\* expected issue is matched; so the tier is remedial exactly when the
\* response says not passed.
C20_FeedbackTier ==
    Answered("review") =>
        LET expected == tasks[call.task_id].expected_issues
            response == Val(call.response)
            n == Len(expected)
            below == response.score < 600
            all_matched == \A j \in DOMAIN expected :
                              expected[j] \in response.matched_issues
            tier == response.feedback.tier
        IN  /\ (tier = "remedial") = below
            /\ (tier = "partial") = (~below /\ ~all_matched)
            /\ (tier = "congratulatory") = (~below /\ all_matched)
            /\ (tier = "remedial") = ~response.success

----------------------------------------------------------------------------
(* main.py: the read operations on a task and its submissions *)

\* the rows of a task, latest submitted_at first; submitted_at is set when
\* the row is created, so this is the reverse of the insertion order
RECURSIVE latest_first(_, _)
latest_first(subs, task_id) ==
    IF subs = <<>> THEN <<>>
    ELSE LET n == Len(subs)
             earlier == latest_first(SubSeq(subs, 1, n - 1), task_id)
         IN  IF subs[n].task_id = task_id THEN <<subs[n]>> \o earlier ELSE earlier

\* mutation of get_task_submissions: oldest first
get_task_submissions_oldest(subs, task_id, limit) ==
    Take(SelectSeq(subs, LAMBDA s : s.task_id = task_id), limit)

\* crud.get_task_submissions: filter by task, order_by(desc(submitted_at)),
\* limit(limit)
get_task_submissions(subs, task_id, limit) ==
    Take(latest_first(subs, task_id), limit)

\* get_task: attempts = submissions[0].attempts if submissions else 0
previous_attempts(subs, task_id) ==
    LET latest == get_task_submissions(subs, task_id, 1)
    IN  IF latest # <<>> THEN latest[1].attempts ELSE 0

\* GET /api/tasks/{task_id}: the task without its solution
GetTask(task_id) ==
    /\ IF task_id \notin DOMAIN tasks
       THEN call' = HTTPException("get_task", task_id, Request(None, None, None),
                                  BaseEnv, 404, "task not found", 0)
       ELSE LET task == tasks[task_id]
                result == [id |-> task_id,
                           task_type |-> task.task_type,
                           language |-> task.language,
                           previous_attempts |-> previous_attempts(submissions, task_id),
                           expected_issues |-> None,
                           test_code |-> IF task.task_type = "review" THEN None
                                         ELSE Some(task.test_code),
                           hints |-> IF task.task_type = "review" THEN None
                                     ELSE Some(task.hints)]
            IN  call' = [NoCall EXCEPT !.path = "get_task", !.task_id = task_id,
                                       !.status = 200, !.response = Some(result)]
    /\ UNCHANGED <<tasks, submissions, compiler_instance, inflight, user_answers>>

\* GET /api/tasks/{task_id}/submissions: the history of a task
ListTaskSubmissions(task_id, limit) ==
    /\ LET rows == get_task_submissions(submissions, task_id, limit)
           result == [i \in DOMAIN rows |->
                        [id |-> rows[i].id, passed |-> rows[i].passed,
                         attempts |-> rows[i].attempts]]
       IN  call' = [NoCall EXCEPT !.path = "list_submissions", !.task_id = task_id,
                                  !.status = 200, !.response = Some(result)]
    /\ UNCHANGED <<tasks, submissions, compiler_instance, inflight, user_answers>>

----------------------------------------------------------------------------
(* The attempts specification: the history of a catalogue of tasks under   *)
(* verification calls made one at a time and the read operations.          *)

AttemptRequests ==
    {Request(None, None, None),
     Request(Some("package main"), None, None),
     Request(None, None, Some(<<"a">>)),
     Request(None, None, Some(<<"b", "a">>))}

Limits == {1, 10}

InitAttempts ==
    /\ tasks = Catalogue
    /\ submissions = <<>>
    /\ compiler_instance = None
    /\ call = NoCall
    /\ inflight = NoWorker
    /\ user_answers = <<>>

NextAttempts ==
    \/ \E task_id \in TaskIds, req \in AttemptRequests : SubmitUnknownTask(task_id, req)
    \/ \E task_id \in TaskIds, req \in AttemptRequests :
          /\ Len(submissions) < MaxSubs
          /\ SubmitReviewTask(task_id, req)
    \/ \E task_id \in TaskIds, req \in AttemptRequests :
          /\ Len(submissions) < MaxSubs
          /\ SubmitWriteTask(task_id, req, FALSE)
    \/ \E task_id \in TaskIds : GetTask(task_id)
    \/ \E task_id \in TaskIds, limit \in Limits : ListTaskSubmissions(task_id, limit)

SpecAttempts == InitAttempts /\ [][NextAttempts]_vars

----------------------------------------------------------------------------
(* Properties of the history of submissions *)

\* C21: stored Submissions are immutable and append-only: no operation
\* changes a field of an existing row or removes a row, and only a
\* verification call that is answered adds one; every other operation
\* leaves the table as it is.
C21_AppendOnly ==
    [][/\ Len(submissions') >= Len(submissions)
       /\ \A i \in DOMAIN submissions : submissions'[i] = submissions[i]
       /\ submissions' # submissions =>
             /\ Len(submissions') = Len(submissions) + 1
             /\ call'.path \in {"write", "review"}
             /\ call'.status = 200
             /\ submissions'[Len(submissions')] = Val(call'.submission)]_vars

\* a read operation answered after two calls for one task were stored
C21_Witness ==
    /\ call.path \in {"get_task", "list_submissions"}
    /\ call.status = 200
    /\ Len(submissions) >= 2
    /\ submissions[1].task_id = submissions[2].task_id
    /\ submissions[1].attempts = 1
    /\ submissions[2].attempts = 2

\* the smaller of two numbers
Min(a, b) == IF a < b THEN a ELSE b

\* the number of hints in the response of the call just answered
HintsShown == IF IsNone(Val(call.response).hints) THEN 0
              ELSE Len(Val(Val(call.response).hints))

\* the rows of failed submissions stored for the task of the call before
\* the row of the call itself
FailedBefore ==
    {j \in 1..(Len(submissions) - 1) :
        submissions[j].task_id = call.task_id /\ ~submissions[j].passed}

\* the latest of them
PreviousFailed == CHOOSE j \in FailedBefore : \A k \in FailedBefore : k <= j

\* the number of hints the response to a stored row showed: none for a
\* passed or first submission, else the first attempts - 1
HintsShownFor(row) ==
    IF row.passed \/ row.attempts < 2 THEN 0
    ELSE Min(Len(tasks[row.task_id].hints), row.attempts - 1)

\* a failed write submission, not the first for a task that defines hints
FailedRetry ==
    /\ Answered("write")
    /\ ~Val(call.response).success
    /\ Val(call.submission).attempts >= 2
    /\ tasks[call.task_id].hints # <<>>

\* C23 as stated: each failed submission after the first attempt shows
\* exactly one hint more than the previous failed submission of the task
\* showed (none when there was no failed one), until the list is
\* exhausted, for every interleaving of passed and failed submissions.
C23_Original ==
    FailedRetry =>
        HintsShown = Min(Len(tasks[call.task_id].hints),
                         1 + (IF FailedBefore = {} THEN 0
                              ELSE HintsShownFor(submissions[PreviousFailed])))

\* C23: a failed submission with attempt ordinal n >= 2 shows the first
\* n - 1 hints (all when there are fewer): compared with the previous
\* failed submission of the task, of ordinal p, it shows n - p hints more
\* until the list is exhausted, which is one more exactly when no other
\* submission of the task lies between the two and one more again for
\* every passed submission in between.
C23_HintEscalation ==
    FailedRetry =>
        LET n == Val(call.submission).attempts
            hints == tasks[call.task_id].hints
        IN  /\ HintsShown = Min(Len(hints), n - 1)
            /\ Val(Val(call.response).hints) = FirstHints(tasks[call.task_id], n - 1)
            /\ FailedBefore # {} =>
                  LET previous == submissions[PreviousFailed]
                  IN  HintsShown = Min(Len(hints),
                                       HintsShownFor(previous) + (n - previous.attempts))

\* failed, passed, failed: the third submission shows two hints although
\* the previous failed one showed none
C23_Witness ==
    /\ FailedRetry
    /\ Val(call.submission).attempts = 3
    /\ FailedBefore # {}
    /\ submissions[PreviousFailed].attempts = 1
    /\ HintsShown = 2

\* C29: after verification calls made one at a time, the previous_attempts
\* reported by the task-detail operation, the attempt ordinal of the most
\* recent Submission of the task or 0 when there is none, equals the
\* number of Submissions stored for that task.
C29_PreviousAttempts ==
    (call.path = "get_task" /\ call.status = 200) =>
        Val(call.response).previous_attempts =
            Cardinality({i \in DOMAIN submissions : submissions[i].task_id = call.task_id})

\* two submissions of the task and one of another task in between
C29_Witness ==
    /\ call.path = "get_task"
    /\ call.status = 200
    /\ Len(submissions) = 3
    /\ submissions[1].task_id = call.task_id
    /\ submissions[2].task_id # call.task_id
    /\ submissions[3].task_id = call.task_id
    /\ Val(call.response).previous_attempts = 2

----------------------------------------------------------------------------
(* Overlapping verification calls.  A handler has no await, so one server  *)
(* process answers one call at a time; calls overlap when several server   *)
(* processes share the database.  create_task_submission counts the rows   *)
(* of the task and inserts the new row in two statements, with no lock and *)
(* no unique constraint between them, so another call's insert can fall    *)
(* between the two.  A worker is a call in progress; compiler_instance is  *)
(* the singleton of the process that served last.                          *)

\* the verdict of a call that passed validation
call_passed(task, req, env) ==
    IF task.task_type = "review"
    THEN LET found_issues == IF TruthyList(req.found_issues)
                             THEN Val(req.found_issues) ELSE <<>>
             matched_issues == match_issues(found_issues, task.expected_issues)
         IN  review_passed(review_score(matched_issues, task.expected_issues))
    ELSE LET out == IF task.language = "go"
                    THEN compile_go(Val(req.user_code), task.test_code, env)
                    ELSE compile_solidity(Val(req.user_code), env)
         IN  write_verdict(task, out.result).passed

\* a verification call from its start to the count of the task's rows in
\* create_task_submission
BeginSubmission(w, task_id, req, env) ==
    /\ IsNone(inflight[w])
    /\ task_id \in DOMAIN tasks
    /\ LET task == tasks[task_id]
           got == get_compiler(compiler_instance, env)
       IN  /\ IF task.task_type = "review"
              THEN /\ ~missing_review_input(req)
                   /\ UNCHANGED compiler_instance
              ELSE /\ ~missing_user_code(req)
                   /\ ~got.raised
                   /\ supported_language(task)
                   /\ compiler_instance' = got.instance
           /\ inflight' = [inflight EXCEPT ![w] = Some(
                  [path |-> IF task.task_type = "review" THEN "review" ELSE "write",
                   task_id |-> task_id,
                   request |-> req,
                   env |-> env,
                   passed |-> call_passed(task, req, env),
                   previous_attempts |-> count_by_task(submissions, task_id)])]
    /\ UNCHANGED <<tasks, submissions, call, user_answers>>

\* the rest of the call: the row is built from the count read before,
\* inserted, and the response reports it
CommitSubmission(w) ==
    /\ ~IsNone(inflight[w])
    /\ LET c == Val(inflight[w])
           submission == new_submission(submissions, c.task_id, c.passed,
                                        c.previous_attempts)
       IN  /\ submissions' = db_add(submissions, submission)
           /\ call' = [NoCall EXCEPT
                 !.path = c.path, !.task_id = c.task_id, !.request = c.request,
                 !.env = c.env, !.status = 200,
                 !.submission = Some(submission),
                 !.response = Some([success |-> c.passed,
                                    submission_id |-> submission.id,
                                    attempts |-> submission.attempts])]
    /\ inflight' = [inflight EXCEPT ![w] = None]
    /\ UNCHANGED <<tasks, compiler_instance, user_answers>>

OverlapCatalogue ==
    <<Task("write", "go", "", Hints, <<>>),
      Task("review", "go", "", <<>>, <<"a">>)>>

OverlapRequests ==
    {Request(Some("package main"), None, None),
     Request(None, None, Some(<<"a">>)),
     Request(None, None, Some(<<"b">>))}

\* the calls in progress
InProgress == {w \in Workers : ~IsNone(inflight[w])}

InitOverlap ==
    /\ tasks = OverlapCatalogue
    /\ submissions = <<>>
    /\ compiler_instance = None
    /\ call = NoCall
    /\ inflight = NoWorker
    /\ user_answers = <<>>

NextOverlap ==
    \/ \E w \in Workers, task_id \in DOMAIN OverlapCatalogue, req \in OverlapRequests :
          /\ Len(submissions) + Cardinality(InProgress) < MaxSubs
          /\ \E env \in EnvsFor(tasks[task_id], FALSE) :
                BeginSubmission(w, task_id, req, env)
    \/ \E w \in Workers : CommitSubmission(w)

SpecOverlap == InitOverlap /\ [][NextOverlap]_vars

\* every row of a table carries 1 + the number of rows of its task before it
OrdinalsInOrder(subs) ==
    \A i \in DOMAIN subs :
        subs[i].attempts =
            1 + Cardinality({j \in 1..(i - 1) : subs[j].task_id = subs[i].task_id})

\* C22: the row a call stores carries 1 + the count the call read.  A call
\* that did not overlap another call for its task (the count is still what
\* it read) continues the ordinals 1..n of the task in creation order; a
\* call that did overlap one (a row of the task was stored after the count
\* was read) stores an ordinal that a row of the task already carries.
C22_Ordinals ==
    [][\A w \in Workers :
        /\ (IsNone(inflight[w]) /\ ~IsNone(inflight'[w])) =>
              Val(inflight'[w]).previous_attempts =
                  Cardinality({i \in DOMAIN submissions :
                                 submissions[i].task_id = Val(inflight'[w]).task_id})
        /\ (~IsNone(inflight[w]) /\ IsNone(inflight'[w])) =>
              LET c == Val(inflight[w])
                  row == submissions'[Len(submissions')]
                  now == Cardinality({i \in DOMAIN submissions :
                                         submissions[i].task_id = c.task_id})
              IN  /\ Len(submissions') = Len(submissions) + 1
                  /\ row.task_id = c.task_id
                  /\ row.attempts = c.previous_attempts + 1
                  /\ (OrdinalsInOrder(submissions) /\ now = c.previous_attempts) =>
                        OrdinalsInOrder(submissions')
                  /\ (OrdinalsInOrder(submissions) /\ now > c.previous_attempts) =>
                        \E i \in DOMAIN submissions :
                            /\ submissions[i].task_id = row.task_id
                            /\ submissions[i].attempts = row.attempts]_vars

\* two calls for one task overlapped: both rows carry attempt ordinal 1
C22_Witness ==
    /\ InProgress = {}
    /\ call.status = 200
    /\ Len(submissions) = 2
    /\ submissions[1].task_id = submissions[2].task_id
    /\ submissions[1].attempts = 1
    /\ submissions[2].attempts = 1
    /\ Val(call.response).attempts = 1

\* C24: for the compile-only driver success is the compiler's exit code
\* alone: compiled and passed hold exactly when the compiler exited with
\* code zero, whatever it printed and whatever test source the task has;
\* no test phase is run and the artifact fields stay unpopulated.
C24_SolidityVerdict ==
    (Answered("write") /\ tasks[call.task_id].language = "solidity") =>
        LET result == Val(call.result)
        IN  /\ call.runs <= 1
            /\ IsNone(result.test_results)
            /\ IsNone(result.abi) /\ IsNone(result.bytecode)
            /\ (call.runs = 1 /\ call.env.build.status = "exited") =>
                  /\ result.compiled = (call.env.build.returncode = 0)
                  /\ result.success = (call.env.build.returncode = 0)
                  /\ Val(call.submission).passed = (call.env.build.returncode = 0)
                  /\ Val(call.response).success = (call.env.build.returncode = 0)

\* the compiler exited with code zero and nothing on stdout, for a task
\* that has test source
C24_Witness ==
    /\ Answered("write")
    /\ tasks[call.task_id].language = "solidity"
    /\ tasks[call.task_id].test_code # ""
    /\ call.env.build = Exited(0)
    /\ call.env.stdout = <<>>
    /\ call.runs = 1
    /\ Val(call.result).compiled
    /\ Val(call.submission).passed

\* the sum of the time limits of the processes the call ran
LimitsOf(language, runs) ==
    IF language = "go"
    THEN (IF runs >= 1 THEN ModInitTimeout ELSE 0)
         + (IF runs >= 2 THEN Timeout ELSE 0) + (IF runs >= 3 THEN Timeout ELSE 0)
    ELSE (IF runs >= 1 THEN Timeout ELSE 0)

\* C25 as stated: a call whose process exceeds the limit returns within a
\* bounded margin of the one configured timeout, counted over the whole
\* call (module init, build and test run together); the margin is taken
\* as anything short of a second whole timeout.
C25_Original ==
    (Answered("write") /\ TimedOut) => call.elapsed < 2 * Timeout

\* C25: every process invocation blocks its call for at most its own time
\* limit (5 s for the module init, 30 s for the build, 30 s for the test
\* run), so a call is blocked for at most the sum of the limits of the
\* processes it ran, and a call whose process exceeded its limit for at
\* least that limit: up to 65 s for a build-and-test call and 30 s for a
\* compile-only call.
C25_PerProcessLimit ==
    Answered("write") =>
        LET language == tasks[call.task_id].language
        IN  /\ call.elapsed <= LimitsOf(language, call.runs)
            /\ language = "go" => call.elapsed <= ModInitTimeout + 2 * Timeout
            /\ language = "solidity" => call.elapsed <= Timeout
            /\ TimedOut =>
                  call.elapsed >= (IF language = "go" /\ call.runs = 1
                                   THEN ModInitTimeout ELSE Timeout)

\* a build that took its 30 s and a test run that exceeded its 30 s
C25_Witness ==
    /\ Answered("write")
    /\ TimedOut
    /\ call.runs = 3
    /\ call.env.test = TimeoutExpired
    /\ "build" \in call.env.slow
    /\ call.elapsed >= 2 * Timeout

\* C26: a toolchain probe returns a boolean and never raises: true exactly
\* when the version query ran and exited with code zero within the probe
\* timeout, false on nonzero exit, timeout or missing executable; it stores
\* nothing, and the verification call made after it runs its driver and
\* stores its Submission whatever the probe returned.
C26_Probe ==
    [][/\ call'.path = "probe" =>
             LET p == Val(call'.probe).process
             IN  /\ call'.status = 200
                 /\ Val(call'.response) \in BOOLEAN
                 /\ Val(call'.response) = (p = Exited(0))
                 /\ UNCHANGED <<tasks, submissions>>
       /\ (/\ call.path = "probe"
           /\ call'.path = "write"
           /\ ~missing_user_code(call'.request)) =>
             LET task == tasks[call'.task_id]
                 out == IF task.language = "go"
                        THEN compile_go(Val(call'.request.user_code),
                                        task.test_code, call'.env)
                        ELSE compile_solidity(Val(call'.request.user_code), call'.env)
             IN  /\ call'.status = 200
                 /\ call'.result = Some(out.result)
                 /\ Len(submissions') = Len(submissions) + 1]_vars

\* the version query of go timed out: the probe answered false
C26_Witness ==
    /\ call.path = "probe"
    /\ Val(call.probe) = [tool |-> "go", process |-> TimeoutExpired]
    /\ Val(call.response) = FALSE
    /\ submissions = <<>>

\* C27: within a build-and-test driver call the test runner is started
\* only after the build of the same call exited with code zero and only
\* when the test source is non-empty; after a failed build or with empty
\* test source no test process is started, and with empty test source and
\* a successful build the verdict is passed = true.
C27_TestPhaseOrder ==
    (Answered("write") /\ tasks[call.task_id].language = "go") =>
        LET task == tasks[call.task_id]
            result == Val(call.result)
        IN  /\ call.runs = 3 => /\ call.env.build = Exited(0)
                                /\ task.test_code # ""
                                /\ result.compiled
            /\ ~IsNone(result.test_results) => call.runs = 3
            /\ BuildFailed => call.runs = 2 /\ IsNone(result.test_results)
            /\ task.test_code = "" => call.runs <= 2 /\ IsNone(result.test_results)
            /\ (task.test_code = "" /\ call.runs = 2 /\ call.env.build = Exited(0)) =>
                  /\ result.success
                  /\ Val(call.submission).passed
                  /\ Val(call.response).success

\* a task without test source whose code builds: two processes, passed
C27_Witness ==
    /\ Answered("write")
    /\ tasks[call.task_id].language = "go"
    /\ tasks[call.task_id].test_code = ""
    /\ call.env.build = Exited(0)
    /\ call.runs = 2
    /\ IsNone(Val(call.result).test_results)
    /\ Val(call.submission).passed

\* what a review call reports for a found_issues list, as the grader
\* computes it
ReviewOutcome(found, expected) ==
    LET matched == match_issues(found, expected)
        score == review_score(matched, expected)
    IN  [matched |-> matched, score |-> round_score(score),
         passed |-> review_passed(score)]

\* C28: score, matched set and verdict of a review call depend only on the
\* set of labels in found_issues: every list with the same set of labels,
\* in any order and with any repetition, gives the same score, matched set
\* and passed; and a found label is matched only when the identical string
\* is among the expected labels, with no case folding.
C28_SetSemantics ==
    Answered("review") =>
        LET expected == tasks[call.task_id].expected_issues
            found == FoundOf(call.request)
            response == Val(call.response)
            reported == [matched |-> response.matched_issues,
                         score |-> response.score,
                         passed |-> response.success]
        IN  /\ \A other \in SeqsUpTo(Labels, MaxFound) :
                  ToSet(other) = ToSet(found) =>
                      ReviewOutcome(other, expected) = reported
            /\ \A l \in response.matched_issues :
                  /\ \E i \in DOMAIN found : found[i] = l
                  /\ \E j \in DOMAIN expected : expected[j] = l
            /\ \A l \in ToSet(found) :
                  (\E j \in DOMAIN expected : expected[j] = l) =>
                      l \in response.matched_issues

\* a repeated label counts once and "A" does not match the expected "a"
C28_Witness ==
    /\ Answered("review")
    /\ tasks[call.task_id].expected_issues = <<"a", "b">>
    /\ FoundOf(call.request) = <<"b", "A", "b">>
    /\ Val(call.response).matched_issues = {"b"}
    /\ Val(call.response).score = 500
    /\ ~Val(call.response).success

----------------------------------------------------------------------------
(* main.py / crud.py: the question picker of a practice session *)

MaxAnswers == 2       \* rows of the user_answers table

\* the questions table: question id -> row
QuestionBank ==
    <<[topic_id |-> 1, difficulty |-> "easy"],
      [topic_id |-> 1, difficulty |-> "hard"],
      [topic_id |-> 2, difficulty |-> "easy"]>>

\* the ids create_session has returned (an autoincrement key, from 1), and
\* the session_id values a request can carry
StartedSessions == {1}
SessionIds == {None, Some(0)} \cup {Some(s) : s \in StartedSessions}

TopicIds == {1, 2}
Difficulties == {None, Some("easy")}

\* Python truthiness of an Optional int
TruthyInt(o) == ~IsNone(o) /\ Val(o) # 0

\* crud.get_answered_questions_in_session: the question ids of the rows
\* saved under the session id, one per row
get_answered_questions_in_session(answers, session_id) ==
    LET rows == SelectSeq(answers, LAMBDA a : a.session_id = Some(session_id))
    IN  [i \in DOMAIN rows |-> rows[i].question_id]

\* mutation of get_random_question: exclude_ids is not applied
get_random_question_no_exclude(topic_id, difficulty, exclude_ids) ==
    {q \in DOMAIN QuestionBank :
        /\ QuestionBank[q].topic_id = topic_id
        /\ TruthyStr(difficulty) => QuestionBank[q].difficulty = Val(difficulty)}

\* crud.get_random_question: the rows random.choice picks from
get_random_question(topic_id, difficulty, exclude_ids) ==
    {q \in DOMAIN QuestionBank :
        /\ QuestionBank[q].topic_id = topic_id
        /\ TruthyStr(difficulty) => QuestionBank[q].difficulty = Val(difficulty)
        /\ exclude_ids # <<>> => q \notin ToSet(exclude_ids)}

\* GET /api/question/{topic_id}
GetQuestion(topic_id, difficulty, session_id) ==
    LET exclude_ids == IF TruthyInt(session_id)
                       THEN get_answered_questions_in_session(user_answers,
                                                              Val(session_id))
                       ELSE <<>>
        questions == get_random_question(topic_id, difficulty, exclude_ids)
        query == [topic_id |-> topic_id, difficulty |-> difficulty,
                  session_id |-> session_id]
    IN  /\ IF questions = {}
           THEN call' = [NoCall EXCEPT !.path = "get_question", !.status = 404,
                                       !.detail = "no questions", !.query = Some(query)]
           ELSE \E question \in questions :
                   call' = [NoCall EXCEPT
                      !.path = "get_question", !.status = 200, !.query = Some(query),
                      !.response = Some([id |-> question,
                                         difficulty |-> QuestionBank[question].difficulty])]
        /\ UNCHANGED <<tasks, submissions, compiler_instance, inflight, user_answers>>

\* POST /api/answer: crud.save_user_answer adds the row as it is given
SubmitAnswer(question_id, session_id) ==
    /\ user_answers' = Append(user_answers,
                              [question_id |-> question_id, session_id |-> session_id])
    /\ call' = [NoCall EXCEPT !.path = "answer", !.status = 200,
                              !.response = Some([success |-> TRUE,
                                                 answer_id |-> Len(user_answers) + 1])]
    /\ UNCHANGED <<tasks, submissions, compiler_instance, inflight>>

InitSession ==
    /\ tasks = <<>>
    /\ submissions = <<>>
    /\ compiler_instance = None
    /\ call = NoCall
    /\ inflight = NoWorker
    /\ user_answers = <<>>

NextSession ==
    \/ \E question_id \in DOMAIN QuestionBank, session_id \in SessionIds :
          /\ Len(user_answers) < MaxAnswers
          /\ SubmitAnswer(question_id, session_id)
    \/ \E topic_id \in TopicIds, difficulty \in Difficulties, session_id \in SessionIds :
          GetQuestion(topic_id, difficulty, session_id)

SpecSession == InitSession /\ [][NextSession]_vars

\* C30: within a practice session, a question for which an answer has been
\* saved under the session id is never returned by get_question called
\* with that session id; once every question of the topic that matches the
\* difficulty filter has been answered in the session the operation
\* reports not-found, and until then it returns one of the others.
C30_NoRepeat ==
    (/\ call.path = "get_question"
     /\ ~IsNone(Val(call.query).session_id)
     /\ Val(Val(call.query).session_id) \in StartedSessions) =>
        LET query == Val(call.query)
            answered == {user_answers[i].question_id :
                            i \in {j \in DOMAIN user_answers :
                                      user_answers[j].session_id = query.session_id}}
            pool == {q \in DOMAIN QuestionBank :
                        /\ QuestionBank[q].topic_id = query.topic_id
                        /\ ~IsNone(query.difficulty) =>
                              QuestionBank[q].difficulty = Val(query.difficulty)}
        IN  /\ call.status \in {200, 404}
            /\ call.status = 200 => Val(call.response).id \in pool \ answered
            /\ call.status = 404 <=> pool \subseteq answered

\* both questions of topic 1 were answered in the session: not found
C30_Witness ==
    /\ call.path = "get_question"
    /\ call.status = 404
    /\ Val(call.query) = [topic_id |-> 1, difficulty |-> None, session_id |-> Some(1)]
    /\ Len(user_answers) = 2
    /\ \A i \in DOMAIN user_answers : user_answers[i].session_id = Some(1)
    /\ {user_answers[i].question_id : i \in DOMAIN user_answers} = {1, 2}

====
